---- MODULE Spec2Model ----
(***************************************************************************)
(* Diffraxia: Eiger HDF5 frame decoding (eiger.py) and radial integration  *)
(* (integrate.py), as state machines.                                      *)
(*                                                                         *)
(* Five specifications share the variables below:                          *)
(*   SpecLocate  _select_payload_group over every frame-node layout        *)
(*   SpecDecode  get_frame_array, then the sentinel scrub of eiger_to_tiff *)
(*   Spec        eiger_to_tiff, one step per loop iteration                *)
(*   SpecRadial  radial_integrate on an image and on twice that image      *)
(*   SpecInteg   integrate_tiff_folder, one step per statement group       *)
(***************************************************************************)
EXTENDS Integers, Sequences, FiniteSets, TLC

VARIABLES
    pc,               \* position of the running function
    frame_group,      \* the frame node handed to the locator / decoder
    payload,          \* what _select_payload_group returned
    ret,              \* what get_frame_array returned (array or raised error)
    img,              \* eiger_to_tiff's img after the scrub
    h5,               \* the opened dataset file
    group_name,       \* the requested top-level group
    nframes,          \* the optional frame limit
    keys,             \* eiger_to_tiff's keys list
    idx,              \* eiger_to_tiff's loop index
    out_files,        \* image files on disk: sequence of [name, content]
    out_dir_made,     \* whether os.makedirs ran
    processed,        \* frame keys handed to get_frame_array, in order
    located,          \* number of _select_payload_group calls
    decompressCalls,  \* number of calls of the decompression service
    error,            \* the error that terminated the run, or "none"
    rad,              \* radial_integrate: its arguments and results
    itg               \* integrate_tiff_folder: its environment and locals

vars == <<pc, frame_group, payload, ret, img, h5, group_name, nframes, keys, idx,
          out_files, out_dir_made, processed, located, decompressCalls, error,
          rad, itg>>

----------------------------------------------------------------------------
(* Bounds *)

MaxDim == 2        \* rows and columns of a declared shape range over 1..MaxDim
MaxBuf == 8        \* longest buffer the decompression service returns (bytes)
MaxFrames == 3     \* most frame nodes under the group of a dataset file
MaxN == 2          \* largest frame limit tried
MaxPix == 2        \* most pixels of an image handed to radial_integrate
MaxPats == 2       \* most patterns in the comma-separated pattern string

----------------------------------------------------------------------------
(* Generic helpers *)

Min(a, b) == IF a < b THEN a ELSE b
Max(a, b) == IF a > b THEN a ELSE b

RECURSIVE SeqsUpTo(_, _)
\* All sequences over S of length at most n.
SeqsUpTo(S, n) ==
    IF n = 0 THEN {<<>>}
    ELSE LET shorter == SeqsUpTo(S, n - 1)
         IN  shorter \cup {Append(s, x) : s \in {t \in shorter : Len(t) = n - 1}, x \in S}

----------------------------------------------------------------------------
(* eiger.py: the payload locator *)

_REQUIRED_KEYS == {"data", "shape", "dtype", "elem_size", "compression_type"}

\* Member names a frame node may hold besides the five fields.
ChannelNames == {"difference", "threshold_1"}

\* An h5py group: the names of its members (group.keys()).  A frame node also
\* records whether its member "difference" is a group and, if so, that
\* group's member names; meta gives the payload fields stored at the frame
\* level ("frame") and under "difference".
_has_required_keys(groupKeys) == \A key \in _REQUIRED_KEYS : key \in groupKeys

SelectedDiff == [ok |-> TRUE, node |-> "difference", error |-> "none", available |-> {}]
SelectedFrame == [ok |-> TRUE, node |-> "frame", error |-> "none", available |-> {}]
LayoutError(fg) ==
    [ok |-> FALSE, node |-> "none", error |-> "LayoutError", available |-> fg.keys]

\* Mutant: the flattened layout is tried before the "difference" channel.
SelectFrameFirst(fg) ==
    IF _has_required_keys(fg.keys)
    THEN SelectedFrame
    ELSE IF "difference" \in fg.keys /\ fg.diffIsGroup /\ _has_required_keys(fg.diffKeys)
    THEN SelectedDiff
    ELSE LayoutError(fg)

_select_payload_group(fg) ==
    IF "difference" \in fg.keys /\ fg.diffIsGroup /\ _has_required_keys(fg.diffKeys)
    THEN SelectedDiff
    ELSE IF _has_required_keys(fg.keys)
    THEN SelectedFrame
    ELSE LayoutError(fg)

----------------------------------------------------------------------------
(* eiger.py: the frame decoder *)

ItemSize == 4      \* np.dtype("uint32").itemsize

\* A uint32 is kept as its two 16-bit halves (value = hi * 65536 + lo).
U32(hi, lo) == [hi |-> hi, lo |-> lo]
U32Zero == U32(0, 0)
\* np.iinfo(np.uint32).max = 2^32 - 1
U32Max == U32(65535, 65535)

RECURSIVE Prod(_)
\* np.prod(shape)
Prod(shape) == IF shape = <<>> THEN 1 ELSE Head(shape) * Prod(Tail(shape))

\* np.frombuffer(buf, dtype=uint32): little-endian words of four bytes each.
FromBuffer(buf) ==
    [k \in 1..(Len(buf) \div ItemSize) |->
        U32(buf[4 * k - 1] + 256 * buf[4 * k], buf[4 * k - 3] + 256 * buf[4 * k - 2])]

NoArray == [shape |-> <<>>, flat |-> <<>>]

\* What the decompression service did when it was not called.
NotServed == [raised |-> FALSE, bytes |-> <<>>]

\* The outcome of get_frame_array: status "ok" with the array, or the error
\* raised; calls counts the calls of the decompression service, served is
\* what the service did when called, info the values the error reports.
Raised(kind, calls, served, info) ==
    [status |-> kind, arr |-> NoArray, calls |-> calls, served |-> served, info |-> info]
Returned(arr, served) ==
    [status |-> "ok", arr |-> arr, calls |-> 1, served |-> served, info |-> <<>>]

\* Mutant: a buffer that is long enough is cut to the expected size.
DecodeBufferTruncating(p, reply) ==
    IF reply.raised THEN Raised("DecompressError", 1, reply, <<>>)
    ELSE LET expected_nbytes == Prod(p.shape) * ItemSize
         IN  IF Len(reply.bytes) < expected_nbytes
             THEN Raised("DecodedSizeMismatchError", 1, reply,
                         <<Len(reply.bytes), expected_nbytes>>)
             ELSE Returned([shape |-> p.shape,
                            flat |-> FromBuffer(SubSeq(reply.bytes, 1, expected_nbytes))],
                           reply)

\* Lines 165-180, once the metadata check has passed: reply is what the
\* decompression service does for this call (it raises, or returns bytes).
DecodeBuffer(p, reply) ==
    IF reply.raised THEN Raised("DecompressError", 1, reply, <<>>)
    ELSE LET expected_nbytes == Prod(p.shape) * ItemSize
         IN  IF Len(reply.bytes) # expected_nbytes
             THEN Raised("DecodedSizeMismatchError", 1, reply,
                         <<Len(reply.bytes), expected_nbytes>>)
             ELSE Returned([shape |-> p.shape, flat |-> FromBuffer(reply.bytes)], reply)

\* Mutant: the dtype label decides instead of elem_size.
DecodePayloadByDtype(p, reply) ==
    IF p.dtype # "<u4"
    THEN Raised("MetadataMismatchError", 0, NotServed, <<p.elem_size, ItemSize>>)
    ELSE DecodeBuffer(p, reply)

\* Lines 147-163: read the metadata, check elem_size against uint32.
DecodePayload(p, reply) ==
    IF p.elem_size # ItemSize
    THEN Raised("MetadataMismatchError", 0, NotServed, <<p.elem_size, ItemSize>>)
    ELSE DecodeBuffer(p, reply)

get_frame_array(fg, reply) ==
    LET sel == _select_payload_group(fg)
    IN  IF ~sel.ok THEN Raised("LayoutError", 0, NotServed, <<>>)
        ELSE DecodePayload(fg.meta[sel.node], reply)

\* eiger_to_tiff lines 228-234: np.where(img == sentinel, 0, img), as uint32.
\* Mutant: the sentinel of int32 (2^31 - 1) is scrubbed instead.
ScrubValueSigned(v) == IF v = U32(32767, 65535) THEN U32Zero ELSE v

ScrubValue(v) == IF v = U32Max THEN U32Zero ELSE v
Scrub(arr) == [shape |-> arr.shape, flat |-> [k \in DOMAIN arr.flat |-> ScrubValue(arr.flat[k])]]

----------------------------------------------------------------------------
(* Inputs of the locator and the decoder *)

\* Every layout of a frame node over the member names above.  diffIsGroup and
\* diffKeys say something only when "difference" is a member.
DefaultPayload ==
    [data |-> "rawA", shape |-> <<1, 1>>, dtype |-> "<u4", elem_size |-> 4,
     compression_type |-> "bslz4"]

DefaultMeta == [n \in {"frame", "difference"} |-> DefaultPayload]

Layouts ==
    {[keys |-> ks, diffIsGroup |-> g, diffKeys |-> dk] :
        ks \in SUBSET (_REQUIRED_KEYS \cup ChannelNames), g \in BOOLEAN,
        dk \in SUBSET _REQUIRED_KEYS}

WellFormedLayout(l) ==
    /\ ("difference" \notin l.keys) => ~l.diffIsGroup
    /\ ~l.diffIsGroup => l.diffKeys = {}

FrameNode(l, meta) ==
    [keys |-> l.keys, diffIsGroup |-> l.diffIsGroup, diffKeys |-> l.diffKeys,
     meta |-> meta]

AllFrameNodes == {FrameNode(l, DefaultMeta) : l \in {x \in Layouts : WellFormedLayout(x)}}

\* Declared shapes: one or two dimensions (np.atleast_1d of the stored value).
Shapes == {<<n>> : n \in 1..MaxDim} \cup {<<r, c>> : r \in 1..MaxDim, c \in 1..MaxDim}

ElemSizes == {2, 4, 8}
DtypeLabels == {"<u4", "<u2"}

Payloads ==
    [data : {"rawA"}, shape : Shapes, dtype : DtypeLabels, elem_size : ElemSizes,
     compression_type : {"bslz4"}]

\* Four layouts the decoder is run on: multi-channel, flattened, an
\* incomplete "difference" over a flattened frame, and an unknown layout.
MultiChannel ==
    [keys |-> {"difference", "threshold_1"}, diffIsGroup |-> TRUE,
     diffKeys |-> _REQUIRED_KEYS]
Flattened == [keys |-> _REQUIRED_KEYS, diffIsGroup |-> FALSE, diffKeys |-> {}]
PartialDiff ==
    [keys |-> _REQUIRED_KEYS \cup {"difference"}, diffIsGroup |-> TRUE,
     diffKeys |-> {"data", "shape"}]
Unknown == [keys |-> {"threshold_1"}, diffIsGroup |-> FALSE, diffKeys |-> {}]

DecoderLayouts == {MultiChannel, Flattened, PartialDiff, Unknown}

\* The two payloads of a node differ, so the decoder's result shows which
\* one it read.
DecoderMetas ==
    {[n \in {"frame", "difference"} |-> IF n = at THEN p ELSE DefaultPayload] :
        at \in {"frame", "difference"}, p \in Payloads}

DecoderFrames == {FrameNode(l, m) : l \in DecoderLayouts, m \in DecoderMetas}

\* What the decompression service may do: raise, or return any byte string
\* of up to MaxBuf bytes over ByteVals.
ByteVals == {0, 255}
Replies ==
    {[raised |-> TRUE, bytes |-> <<>>]}
    \cup {[raised |-> FALSE, bytes |-> b] : b \in SeqsUpTo(ByteVals, MaxBuf)}

----------------------------------------------------------------------------
(* Values of the variables a specification does not use *)

NoPayload == [ok |-> FALSE, node |-> "none", error |-> "none", available |-> {}]
NoRet == Raised("none", 0, NotServed, <<>>)
NoFrame == FrameNode(Unknown, DefaultMeta)
NoFile == [g \in {} |-> 0]
NoLimit == [given |-> FALSE, n |-> 0]
RadIdle == [used |-> FALSE]
ItgIdle == [used |-> FALSE]

DecoderIdle ==
    /\ frame_group = NoFrame /\ payload = NoPayload /\ ret = NoRet /\ img = NoArray
    /\ decompressCalls = 0

ConverterIdle ==
    /\ h5 = NoFile /\ group_name = "data" /\ nframes = NoLimit /\ keys = <<>>
    /\ idx = 0 /\ out_files = <<>> /\ out_dir_made = FALSE /\ processed = <<>>
    /\ located = 0 /\ error = "none"

ConverterUnchanged ==
    UNCHANGED <<h5, group_name, nframes, keys, idx, out_files, out_dir_made,
                processed, located, error>>

----------------------------------------------------------------------------
(* SpecLocate: _select_payload_group on every frame node *)

InitLocate ==
    /\ pc = "start"
    /\ frame_group \in AllFrameNodes
    /\ payload = NoPayload /\ ret = NoRet /\ img = NoArray
    /\ decompressCalls = 0
    /\ ConverterIdle
    /\ rad = RadIdle /\ itg = ItgIdle

SelectPayload ==
    /\ pc = "start"
    /\ payload' = _select_payload_group(frame_group)
    /\ pc' = "located"
    /\ UNCHANGED <<frame_group, ret, img, decompressCalls, rad, itg>>
    /\ ConverterUnchanged

NextLocate == SelectPayload

SpecLocate == InitLocate /\ [][NextLocate]_vars

----------------------------------------------------------------------------
(* SpecDecode: get_frame_array, then the scrub eiger_to_tiff applies *)

InitDecode ==
    /\ pc = "start"
    /\ frame_group \in DecoderFrames
    /\ payload = NoPayload /\ ret = NoRet /\ img = NoArray
    /\ decompressCalls = 0
    /\ ConverterIdle
    /\ rad = RadIdle /\ itg = ItgIdle

\* The reply is drawn only where the service is called (line 166).
ServiceReplies(fg) ==
    IF get_frame_array(fg, NotServed).calls = 0 THEN {NotServed} ELSE Replies

GetFrameArray ==
    /\ pc = "start"
    /\ \E reply \in ServiceReplies(frame_group) :
          /\ ret' = get_frame_array(frame_group, reply)
          /\ decompressCalls' = decompressCalls + ret'.calls
    /\ payload' = _select_payload_group(frame_group)
    /\ pc' = IF ret'.status = "ok" THEN "decoded" ELSE "raised"
    /\ UNCHANGED <<frame_group, img, rad, itg>>
    /\ ConverterUnchanged

ScrubFrame ==
    /\ pc = "decoded"
    /\ img' = Scrub(ret.arr)
    /\ pc' = "scrubbed"
    /\ UNCHANGED <<frame_group, payload, ret, decompressCalls, rad, itg>>
    /\ ConverterUnchanged

NextDecode == GetFrameArray \/ ScrubFrame

SpecDecode == InitDecode /\ [][NextDecode]_vars

----------------------------------------------------------------------------
(* eiger.py: the batch converter *)

\* A frame key is a decimal string, kept as its sequence of digits.
RECURSIVE KeyInt(_)
\* int(k)
KeyInt(k) == IF k = <<>> THEN 0 ELSE 10 * KeyInt(SubSeq(k, 1, Len(k) - 1)) + k[Len(k)]

RECURSIVE InsertByKey(_, _)
\* Where a stable sort puts k among the already sorted keys: after every key
\* whose int() is not larger.
InsertByKey(sorted, k) ==
    IF sorted = <<>> THEN <<k>>
    ELSE IF KeyInt(Head(sorted)) <= KeyInt(k)
    THEN <<Head(sorted)>> \o InsertByKey(Tail(sorted), k)
    ELSE <<k>> \o sorted

\* s < t as Python compares strings.
RECURSIVE LexLess(_, _)
LexLess(s, t) ==
    IF t = <<>> THEN FALSE
    ELSE IF s = <<>> THEN TRUE
    ELSE IF Head(s) # Head(t) THEN Head(s) < Head(t)
    ELSE LexLess(Tail(s), Tail(t))

RECURSIVE InsertLex(_, _)
InsertLex(sorted, k) ==
    IF sorted = <<>> THEN <<k>>
    ELSE IF ~LexLess(k, Head(sorted))
    THEN <<Head(sorted)>> \o InsertLex(Tail(sorted), k)
    ELSE <<k>> \o sorted

RECURSIVE SortedLex(_)
\* Mutant: sorted(group.keys()) without the key function.
SortedLex(listing) ==
    IF listing = <<>> THEN <<>>
    ELSE InsertLex(SortedLex(SubSeq(listing, 1, Len(listing) - 1)), listing[Len(listing)])

RECURSIVE list_frame_keys(_)
\* sorted(group.keys(), key=lambda k: int(k)); listing is group.keys().
list_frame_keys(listing) ==
    IF listing = <<>> THEN <<>>
    ELSE InsertByKey(list_frame_keys(SubSeq(listing, 1, Len(listing) - 1)),
                     listing[Len(listing)])

\* keys[:n] of Python, n of either sign.
SliceTo(s, n) ==
    IF n >= 0 THEN SubSeq(s, 1, Min(n, Len(s)))
    ELSE SubSeq(s, 1, Max(Len(s) + n, 0))

\* Lines 219-220.
LimitKeys(ks, limit) == IF limit.given THEN SliceTo(ks, limit.n) ELSE ks

RECURSIVE Digits(_)
\* The decimal digits of n >= 0, most significant first.
Digits(n) == IF n < 10 THEN <<n>> ELSE Append(Digits(n \div 10), n % 10)

RECURSIVE ZeroPad(_, _)
ZeroPad(d, width) == IF Len(d) >= width THEN d ELSE ZeroPad(<<0>> \o d, width)

\* f"frame_{idx:05d}.tiff": the digits between "frame_" and ".tiff".
FrameFileName(i) == ZeroPad(Digits(i), 5)

\* iio.imwrite(out_name, img), np.savetxt(outname, table): creates the file
\* or replaces its content.
WriteFile(disk, name, content) ==
    IF \E j \in DOMAIN disk : disk[j].name = name
    THEN [j \in DOMAIN disk |->
            IF disk[j].name = name THEN [name |-> name, content |-> content] ELSE disk[j]]
    ELSE Append(disk, [name |-> name, content |-> content])

\* Mutant: a missing group is taken as an empty one.
OpenGroupLenient(f, name) ==
    IF name \notin DOMAIN f
    THEN [ok |-> TRUE, error |-> "none", listing |-> <<>>]
    ELSE [ok |-> TRUE, error |-> "none", listing |-> f[name].listing]

\* Lines 213-217: the group lookup.
OpenGroup(f, name) ==
    IF name \notin DOMAIN f
    THEN [ok |-> FALSE, error |-> "MissingGroupError", listing |-> <<>>]
    ELSE [ok |-> TRUE, error |-> "none", listing |-> f[name].listing]

----------------------------------------------------------------------------
(* Inputs of the batch converter *)

KeyUniverse == {<<1>>, <<2>>, <<1, 0>>, <<0, 2>>}

Distinct(s) == \A i, j \in DOMAIN s : i # j => s[i] # s[j]

\* group.keys() in any order the container library may list them.
Listings == {l \in SeqsUpTo(KeyUniverse, MaxFrames) : Distinct(l)}

FlatPayload(shape, elem_size, dtype) ==
    [data |-> "rawA", shape |-> shape, dtype |-> dtype, elem_size |-> elem_size,
     compression_type |-> "bslz4"]

\* A decodable multi-channel frame, a flattened frame whose elem_size is 2,
\* and a frame of unknown layout.
GoodFrame == FrameNode(MultiChannel, DefaultMeta)
BadElemFrame ==
    FrameNode(Flattened, [n \in {"frame", "difference"} |-> FlatPayload(<<1, 1>>, 2, "<u4")])
BatchFrames == {GoodFrame, BadElemFrame, NoFrame}

Groups ==
    {[listing |-> l, frames |-> fr] :
        l \in Listings, fr \in UNION {[S -> BatchFrames] : S \in SUBSET KeyUniverse}}

WellFormedGroup(g) == DOMAIN g.frames = {g.listing[i] : i \in DOMAIN g.listing}

\* A second top-level group some files hold besides "data".
EntryGroup == [listing |-> <<<<7>>>>, frames |-> (<<7>> :> GoodFrame)]

\* The dataset files: "data" is absent, or holds any well-formed group.
Files ==
    {[n \in {"entry"} |-> EntryGroup]}
    \cup {[n \in {"data"} |-> g] : g \in {x \in Groups : WellFormedGroup(x)}}

Limits == {NoLimit} \cup {[given |-> TRUE, n |-> n] : n \in (-1)..MaxN}

\* Replies of the decompression service in a batch run: it raises, or returns
\* one word (the sentinel, or 255), or two words.
BatchReplies ==
    {[raised |-> TRUE, bytes |-> <<>>],
     [raised |-> FALSE, bytes |-> <<255, 255, 255, 255>>],
     [raised |-> FALSE, bytes |-> <<255, 0, 0, 0>>],
     [raised |-> FALSE, bytes |-> <<0, 0, 0, 0, 0, 0, 0, 0>>]}

BatchServiceReplies(fg) ==
    IF get_frame_array(fg, NotServed).calls = 0 THEN {NotServed} ELSE BatchReplies

----------------------------------------------------------------------------
(* Spec: eiger_to_tiff *)

Init ==
    /\ pc = "start"
    /\ h5 \in Files
    /\ group_name = "data"
    /\ nframes \in Limits
    /\ keys = <<>> /\ idx = 0 /\ out_files = <<>> /\ out_dir_made = FALSE
    /\ processed = <<>> /\ located = 0 /\ decompressCalls = 0 /\ error = "none"
    /\ frame_group = NoFrame /\ payload = NoPayload /\ ret = NoRet /\ img = NoArray
    /\ rad = RadIdle /\ itg = ItgIdle

\* Lines 206-222: create the output folder, open the file, look the group up,
\* list and limit the keys.
OpenFile ==
    /\ pc = "start"
    /\ out_dir_made' = TRUE
    /\ LET g == OpenGroup(h5, group_name)
       IN  IF ~g.ok
           THEN /\ error' = g.error
                /\ pc' = "failed"
                /\ keys' = keys
           ELSE /\ keys' = LimitKeys(list_frame_keys(g.listing), nframes)
                /\ pc' = "loop"
                /\ error' = error
    /\ UNCHANGED <<frame_group, payload, ret, img, h5, group_name, nframes, idx,
                   out_files, processed, located, decompressCalls, rad, itg>>

\* Mutant: a frame that fails is reported and skipped.
ConvertFrameSkipping ==
    /\ pc = "loop"
    /\ idx < Len(keys)
    /\ LET k == keys[idx + 1]
           fg == h5[group_name].frames[k]
       IN  /\ frame_group' = fg
           /\ processed' = Append(processed, k)
           /\ payload' = _select_payload_group(fg)
           /\ located' = located + 1
           /\ \E reply \in BatchServiceReplies(fg) :
                 /\ ret' = get_frame_array(fg, reply)
                 /\ decompressCalls' = decompressCalls + ret'.calls
                 /\ idx' = idx + 1
                 /\ pc' = pc
                 /\ IF ret'.status = "ok"
                    THEN /\ img' = Scrub(ret'.arr)
                         /\ out_files' = WriteFile(out_files, FrameFileName(idx), img')
                         /\ error' = error
                    ELSE /\ error' = ret'.status
                         /\ UNCHANGED <<img, out_files>>
    /\ UNCHANGED <<h5, group_name, nframes, keys, out_dir_made, rad, itg>>

\* Lines 224-239: one iteration of the loop.
ConvertFrame ==
    /\ pc = "loop"
    /\ idx < Len(keys)
    /\ LET k == keys[idx + 1]
           fg == h5[group_name].frames[k]
       IN  /\ frame_group' = fg
           /\ processed' = Append(processed, k)
           /\ payload' = _select_payload_group(fg)
           /\ located' = located + 1
           /\ \E reply \in BatchServiceReplies(fg) :
                 /\ ret' = get_frame_array(fg, reply)
                 /\ decompressCalls' = decompressCalls + ret'.calls
                 /\ IF ret'.status = "ok"
                    THEN /\ img' = Scrub(ret'.arr)
                         /\ out_files' = WriteFile(out_files, FrameFileName(idx), img')
                         /\ idx' = idx + 1
                         /\ UNCHANGED <<pc, error>>
                    ELSE /\ error' = ret'.status
                         /\ pc' = "failed"
                         /\ UNCHANGED <<img, out_files, idx>>
    /\ UNCHANGED <<h5, group_name, nframes, keys, out_dir_made, rad, itg>>

\* Lines 240-241: the loop is exhausted.
FinishConvert ==
    /\ pc = "loop"
    /\ idx = Len(keys)
    /\ pc' = "done"
    /\ UNCHANGED <<frame_group, payload, ret, img, h5, group_name, nframes, keys, idx,
                   out_files, out_dir_made, processed, located, decompressCalls,
                   error, rad, itg>>

Next == OpenFile \/ ConvertFrame \/ FinishConvert

Spec == Init /\ [][Next]_vars

----------------------------------------------------------------------------
(* Properties of the locator and the decoder *)

DiffComplete(fg) ==
    "difference" \in fg.keys /\ fg.diffIsGroup /\ _REQUIRED_KEYS \subseteq fg.diffKeys
FrameComplete(fg) == _REQUIRED_KEYS \subseteq fg.keys

\* C1: the locator returns "difference" exactly when that child exists, is a
\* group and holds all five fields; otherwise the frame node exactly when it
\* holds all five fields itself; otherwise it fails, listing the child names
\* of the frame node.  Nothing else is ever returned.
C1_LocatorThreeWay ==
    pc = "located" =>
        /\ payload.node \in {"difference", "frame", "none"}
        /\ (payload.ok /\ payload.node = "difference") <=> DiffComplete(frame_group)
        /\ (payload.ok /\ payload.node = "frame")
              <=> (~DiffComplete(frame_group) /\ FrameComplete(frame_group))
        /\ ~payload.ok <=> (~DiffComplete(frame_group) /\ ~FrameComplete(frame_group))
        /\ ~payload.ok =>
              /\ payload.error = "LayoutError"
              /\ payload.node = "none"
              /\ payload.available = frame_group.keys

\* An incomplete "difference" group over a complete frame node: the frame
\* node is returned.
C1_Witness ==
    /\ pc = "located"
    /\ "difference" \in frame_group.keys /\ frame_group.diffIsGroup
    /\ frame_group.diffKeys = {"data", "shape"}
    /\ FrameComplete(frame_group)
    /\ payload = SelectedFrame

LocatedPayload == frame_group.meta[payload.node]

\* C2: a located payload whose elem_size is not 4 makes get_frame_array raise
\* the metadata mismatch, whatever the shape and the dtype label; no array is
\* returned and the decompression service has not been called.
C2_ElemSizeRejected ==
    (pc # "start" /\ payload.ok /\ LocatedPayload.elem_size # 4) =>
        /\ pc = "raised"
        /\ ret.status = "MetadataMismatchError"
        /\ ret.arr = NoArray
        /\ img = NoArray
        /\ ret.calls = 0
        /\ decompressCalls = 0
        /\ ret.served = NotServed

\* elem_size 2 under a dtype label that says uint32.
C2_Witness ==
    /\ pc = "raised"
    /\ payload.ok
    /\ LocatedPayload.elem_size = 2
    /\ LocatedPayload.dtype = "<u4"
    /\ LocatedPayload.shape = <<2, 1>>
    /\ ret.status = "MetadataMismatchError"

ShapeCount(shape) == IF Len(shape) = 2 THEN shape[1] * shape[2] ELSE shape[1]

\* The k-th little-endian 32-bit word of a byte string (k from 1).
WordAt(bytes, k) ==
    U32(bytes[4 * k - 1] + 256 * bytes[4 * k], bytes[4 * k - 3] + 256 * bytes[4 * k - 2])

\* C3: with elem_size 4 the service is called; if the buffer it returns is not
\* rows*cols*4 bytes long, get_frame_array raises the size mismatch and returns
\* no array; if it is, the array has the declared shape and rows*cols
\* elements, element (r, c) being word r*cols + c of the buffer.
C3_SizeChecked ==
    (pc # "start" /\ payload.ok /\ LocatedPayload.elem_size = 4) =>
        /\ ret.calls = 1
        /\ ~ret.served.raised =>
              LET shape == LocatedPayload.shape
                  count == ShapeCount(shape)
                  bytes == ret.served.bytes
              IN  IF Len(bytes) # count * 4
                  THEN /\ ret.status = "DecodedSizeMismatchError"
                       /\ ret.arr = NoArray
                       /\ pc = "raised"
                  ELSE /\ ret.status = "ok"
                       /\ ret.arr.shape = shape
                       /\ Len(ret.arr.flat) = count
                       /\ \A k \in 1..count : ret.arr.flat[k] = WordAt(bytes, k)
                       /\ Len(shape) = 2 =>
                             \A r \in 0..(shape[1] - 1), c \in 0..(shape[2] - 1) :
                                 ret.arr.flat[r * shape[2] + c + 1]
                                     = WordAt(bytes, r * shape[2] + c + 1)

\* A 1x1 frame for which the service returned eight bytes.
C3_Witness ==
    /\ pc = "raised"
    /\ payload.ok
    /\ LocatedPayload.elem_size = 4
    /\ LocatedPayload.shape = <<1, 1>>
    /\ ~ret.served.raised
    /\ Len(ret.served.bytes) = 8
    /\ ret.status = "DecodedSizeMismatchError"

\* C4: the frame eiger_to_tiff holds after decoding and scrubbing has no
\* element 2^32-1; an element that decompressed to 2^32-1 is 0, any other is
\* kept, and scrubbing the scrubbed frame again changes nothing.
C4_SentinelScrubbed ==
    pc = "scrubbed" =>
        /\ img.shape = ret.arr.shape
        /\ Len(img.flat) = Len(ret.arr.flat)
        /\ \A k \in DOMAIN img.flat :
              /\ img.flat[k] # [hi |-> 65535, lo |-> 65535]
              /\ ret.arr.flat[k] = [hi |-> 65535, lo |-> 65535]
                    => img.flat[k] = [hi |-> 0, lo |-> 0]
              /\ ret.arr.flat[k] # [hi |-> 65535, lo |-> 65535]
                    => img.flat[k] = ret.arr.flat[k]
        /\ Scrub(img) = img

\* A two-element frame whose first element decompressed to the sentinel and
\* whose second to 0x00FFFFFF, which is kept.
C4_Witness ==
    /\ pc = "scrubbed"
    /\ Len(ret.arr.flat) = 2
    /\ ret.arr.flat[1] = [hi |-> 65535, lo |-> 65535]
    /\ ret.arr.flat[2] = [hi |-> 255, lo |-> 65535]
    /\ img.flat = <<[hi |-> 0, lo |-> 0], [hi |-> 255, lo |-> 65535]>>

----------------------------------------------------------------------------
(* Properties of the batch converter *)

GroupPresent == group_name \in DOMAIN h5
Listed == {h5[group_name].listing[i] : i \in DOMAIN h5[group_name].listing}
Handled == {processed[i] : i \in DOMAIN processed}
FrameErrors ==
    {"LayoutError", "MetadataMismatchError", "DecodedSizeMismatchError", "DecompressError"}

\* C5: with a limit N >= 0 or none, the frames are handed to the decoder in
\* the order of their keys' numeric value, the first min(N, count) of them and
\* no others, and the j-th converted frame (j from 0) is the file whose name
\* carries j as five digits: consecutive indices, no name twice.
C5_NumericOrder ==
    (pc # "start" /\ GroupPresent /\ (nframes.given => nframes.n >= 0)) =>
        LET count == Len(h5[group_name].listing)
            want == IF nframes.given THEN Min(nframes.n, count) ELSE count
        IN  /\ Handled \subseteq Listed
            /\ Distinct(processed)
            /\ Len(processed) <= want
            /\ \A i, j \in DOMAIN processed :
                  i < j => KeyInt(processed[i]) <= KeyInt(processed[j])
            /\ \A k \in Listed \ Handled :
                  \A i \in DOMAIN processed : KeyInt(processed[i]) <= KeyInt(k)
            /\ Len(out_files) = IF pc = "failed" THEN Len(processed) - 1 ELSE Len(processed)
            /\ \A j \in DOMAIN out_files :
                  /\ Len(out_files[j].name) = 5
                  /\ KeyInt(out_files[j].name) = j - 1
            /\ \A i, j \in DOMAIN out_files :
                  i # j => out_files[i].name # out_files[j].name
            /\ pc = "done" => Len(processed) = want

\* The keys "10", "2", "1" are converted as "1", "2", "10".
C5_Witness ==
    /\ pc = "done"
    /\ GroupPresent
    /\ h5[group_name].listing = <<<<1, 0>>, <<2>>, <<1>>>>
    /\ processed = <<<<1>>, <<2>>, <<1, 0>>>>
    /\ Len(out_files) = 3
    /\ out_files[3].name = <<0, 0, 0, 0, 2>>

\* C6: when the group is absent the run fails with the missing-group error
\* and stops: no frame was located or decoded, the decompression service was
\* not called and there is no image file.
C6_MissingGroupFirst ==
    (pc # "start" /\ ~GroupPresent) =>
        /\ pc = "failed"
        /\ error = "MissingGroupError"
        /\ located = 0
        /\ processed = <<>>
        /\ frame_group = NoFrame
        /\ ret = NoRet
        /\ decompressCalls = 0
        /\ out_files = <<>>
        /\ ~ENABLED Next

\* A file that holds frames under another group only.
C6_Witness ==
    /\ pc = "failed"
    /\ error = "MissingGroupError"
    /\ "entry" \in DOMAIN h5
    /\ ~GroupPresent

\* C7: when the frame at sorted position idx fails, the run has terminated
\* with that error: the files of positions 0..idx-1 exist, there is none for
\* position idx or later, and exactly the frames up to position idx were
\* located; nothing runs afterwards.
C7_AbortOnFirstError ==
    (error \in FrameErrors) =>
        /\ pc = "failed"
        /\ error = ret.status
        /\ located = idx + 1
        /\ processed = SubSeq(keys, 1, idx + 1)
        /\ Len(out_files) = idx
        /\ \A j \in DOMAIN out_files : KeyInt(out_files[j].name) = j - 1
        /\ ~ENABLED Next

\* The second of three frames fails after the first was written.
C7_Witness ==
    /\ pc = "failed"
    /\ error = "DecodedSizeMismatchError"
    /\ idx = 1
    /\ Len(keys) = 3
    /\ Len(out_files) = 1
    /\ located = 2

----------------------------------------------------------------------------
(* integrate.py: the radial integrator *)

\* A value of the angle map: a finite number of degrees (an integer here),
\* or NaN, +inf, -inf.
Fin(v) == [kind |-> "fin", v |-> v]
NaN == [kind |-> "nan", v |-> 0]
PosInf == [kind |-> "inf", v |-> 0]
NegInf == [kind |-> "-inf", v |-> 0]

\* np.isfinite
IsFinite(a) == a.kind = "fin"

\* np.linspace(tth_min, tth_max, nbins + 1)[i] is EdgeNum / nbins: rationals
\* are kept as numerators over the common denominator nbins.
EdgeNum(i, tth_min, tth_max, nbins) == tth_min * nbins + i * (tth_max - tth_min)

RECURSIVE SumSeq(_)
SumSeq(w) == IF w = <<>> THEN 0 ELSE Head(w) + SumSeq(Tail(w))

RECURSIVE InsertByAngle(_, _)
InsertByAngle(sorted, px) ==
    IF sorted = <<>> THEN <<px>>
    ELSE IF Head(sorted).a <= px.a
    THEN <<Head(sorted)>> \o InsertByAngle(Tail(sorted), px)
    ELSE <<px>> \o sorted

RECURSIVE SortByAngle(_)
\* tmp_a[np.argsort(tmp_a)] with the weights carried along.
SortByAngle(pxs) ==
    IF pxs = <<>> THEN <<>>
    ELSE InsertByAngle(SortByAngle(Tail(pxs)), Head(pxs))

\* sa.searchsorted(edge, 'left') and (edge, 'right') on the sorted angles.
SearchLeft(sa, edgeNum, nbins) == Cardinality({j \in DOMAIN sa : sa[j].a * nbins < edgeNum})
SearchRight(sa, edgeNum, nbins) == Cardinality({j \in DOMAIN sa : sa[j].a * nbins <= edgeNum})

\* Mutant: the last bin is right-open like the others.
HistogramRightOpen(angles, weights, tth_min, tth_max, nbins) ==
    LET sorted == SortByAngle([k \in DOMAIN angles |-> [a |-> angles[k], w |-> weights[k]]])
        cw(m) == SumSeq([j \in 1..m |-> sorted[j].w])
        cum_n == [i \in 0..nbins |->
                    cw(SearchLeft(sorted, EdgeNum(i, tth_min, tth_max, nbins), nbins))]
    IN  [i \in 1..nbins |-> cum_n[i] - cum_n[i - 1]]

\* Mutant: weights=img_flat is forgotten, pixels are counted.
HistogramCounts(angles, weights, tth_min, tth_max, nbins) ==
    LET sorted == SortByAngle([k \in DOMAIN angles |-> [a |-> angles[k], w |-> 1]])
        cw(m) == SumSeq([j \in 1..m |-> sorted[j].w])
        cum_n == [i \in 0..nbins |->
                    cw(IF i < nbins
                       THEN SearchLeft(sorted, EdgeNum(i, tth_min, tth_max, nbins), nbins)
                       ELSE SearchRight(sorted, EdgeNum(i, tth_min, tth_max, nbins), nbins))]
    IN  [i \in 1..nbins |-> cum_n[i] - cum_n[i - 1]]

\* np.histogram(tth_flat, bins=edges, weights=img_flat)[0]: the pixels are
\* sorted by angle, their weights accumulated, and the running sum read at
\* the position of each edge, the last edge closed on the right.
Histogram(angles, weights, tth_min, tth_max, nbins) ==
    LET sorted == SortByAngle([k \in DOMAIN angles |-> [a |-> angles[k], w |-> weights[k]]])
        cw(m) == SumSeq([j \in 1..m |-> sorted[j].w])
        cum_n == [i \in 0..nbins |->
                    cw(IF i < nbins
                       THEN SearchLeft(sorted, EdgeNum(i, tth_min, tth_max, nbins), nbins)
                       ELSE SearchRight(sorted, EdgeNum(i, tth_min, tth_max, nbins), nbins))]
    IN  [i \in 1..nbins |-> cum_n[i] - cum_n[i - 1]]

\* The positions, in order, at which valid holds: x[valid].
RECURSIVE Masked(_, _)
Masked(x, valid) ==
    IF x = <<>> THEN <<>>
    ELSE (IF Head(valid) THEN <<Head(x)>> ELSE <<>>) \o Masked(Tail(x), Tail(valid))

\* radial_integrate on flattened arrays.  A boolean mask of another length
\* than the image makes img_flat[valid] raise IndexError.  tth_centers are
\* numerators over 2 * nbins.
radial_integrate(img_flat, tth_flat, tth_min, tth_max, nbins) ==
    LET valid == [k \in DOMAIN tth_flat |-> IsFinite(tth_flat[k])]
    IN  IF Len(img_flat) # Len(tth_flat)
        THEN [ok |-> FALSE, error |-> "IndexError", tth_centers |-> <<>>, sum_I |-> <<>>]
        ELSE [ok |-> TRUE, error |-> "none",
              tth_centers |->
                  [i \in 1..nbins |-> EdgeNum(i - 1, tth_min, tth_max, nbins)
                                        + EdgeNum(i, tth_min, tth_max, nbins)],
              sum_I |->
                  Histogram([k \in DOMAIN Masked(tth_flat, valid) |->
                                 Masked(tth_flat, valid)[k].v],
                            Masked(img_flat, valid), tth_min, tth_max, nbins)]

----------------------------------------------------------------------------
(* SpecRadial: radial_integrate on an image, then on twice that image *)

Intensities == {0, 1, 3}
AngleValues == {NaN, PosInf, NegInf} \cup {Fin(v) : v \in 0..4}
Ranges == {<<1, 2>>, <<1, 3>>, <<2, 3>>}
BinCounts == {1, 2, 3}

NoResult == [ok |-> FALSE, error |-> "none", tth_centers |-> <<>>, sum_I |-> <<>>]

InitRadial ==
    /\ pc = "start"
    /\ \E n \in 0..MaxPix :
         rad \in [used : {TRUE}, img : [1..n -> Intensities], tth_map : [1..n -> AngleValues],
                  range : Ranges, nbins : BinCounts, res : {NoResult}, res2 : {NoResult}]
    /\ itg = ItgIdle
    /\ DecoderIdle
    /\ ConverterIdle

Integrate ==
    /\ pc = "start"
    /\ rad' = [rad EXCEPT !.res = radial_integrate(rad.img, rad.tth_map, rad.range[1],
                                                    rad.range[2], rad.nbins)]
    /\ pc' = "integrated"
    /\ UNCHANGED <<frame_group, payload, ret, img, decompressCalls, itg>>
    /\ ConverterUnchanged

IntegrateDoubled ==
    /\ pc = "integrated"
    /\ rad' = [rad EXCEPT !.res2 = radial_integrate([k \in DOMAIN rad.img |-> 2 * rad.img[k]],
                                                     rad.tth_map, rad.range[1],
                                                     rad.range[2], rad.nbins)]
    /\ pc' = "doubled"
    /\ UNCHANGED <<frame_group, payload, ret, img, decompressCalls, itg>>
    /\ ConverterUnchanged

NextRadial == Integrate \/ IntegrateDoubled

SpecRadial == InitRadial /\ [][NextRadial]_vars

----------------------------------------------------------------------------
(* Properties of the radial integrator *)

RECURSIVE SumOver(_, _)
\* The sum of f[k] over the k in S.
SumOver(f, S) ==
    IF S = {} THEN 0
    ELSE LET k == CHOOSE x \in S : TRUE IN f[k] + SumOver(f, S \ {k})

\* Pixel k lies in bin i (1..nbins): edge_(i-1) <= angle < edge_i, or the
\* angle is tth_max and i is the last bin.
InBin(k, i) ==
    LET a == rad.tth_map[k]
        lo == rad.range[1]
        hi == rad.range[2]
        n == rad.nbins
    IN  /\ a.kind = "fin"
        /\ \/ /\ lo * n + (i - 1) * (hi - lo) <= a.v * n
              /\ a.v * n < lo * n + i * (hi - lo)
           \/ i = n /\ a.v = hi

InRange(k) ==
    /\ rad.tth_map[k].kind = "fin"
    /\ rad.range[1] <= rad.tth_map[k].v
    /\ rad.tth_map[k].v <= rad.range[2]

\* C8: bin i holds the summed intensity of the pixels whose finite angle lies
\* in [edge_(i-1), edge_i), the last bin also those at tth_max; a pixel lies
\* in at most one bin, one with a NaN, infinite or out-of-range angle in none
\* and without an error, so the bins add up to the intensity of the pixels
\* with a finite angle in [tth_min, tth_max].
C8_BinMembership ==
    pc \in {"integrated", "doubled"} =>
        /\ rad.res.ok
        /\ Len(rad.res.sum_I) = rad.nbins
        /\ \A i \in 1..rad.nbins :
              rad.res.sum_I[i] = SumOver(rad.img, {k \in DOMAIN rad.img : InBin(k, i)})
        /\ \A k \in DOMAIN rad.img :
              /\ Cardinality({i \in 1..rad.nbins : InBin(k, i)}) <= 1
              /\ InRange(k) <=> (\E i \in 1..rad.nbins : InBin(k, i))
        /\ SumSeq(rad.res.sum_I) = SumOver(rad.img, {k \in DOMAIN rad.img : InRange(k)})

\* One pixel at tth_max counted in the last of two bins, one NaN pixel lost.
C8_Witness ==
    /\ pc = "integrated"
    /\ rad.nbins = 2
    /\ rad.range = <<1, 3>>
    /\ rad.tth_map = <<Fin(3), NaN>>
    /\ rad.img = <<3, 1>>
    /\ rad.res.sum_I = <<0, 3>>

\* C9: integrating 2*image gives, bin by bin, twice the sums of integrating
\* image, with the same bin centers and the same length nbins.
C9_Linear ==
    pc = "doubled" =>
        /\ rad.res.ok /\ rad.res2.ok
        /\ Len(rad.res2.sum_I) = rad.nbins
        /\ Len(rad.res.sum_I) = rad.nbins
        /\ \A i \in 1..rad.nbins : rad.res2.sum_I[i] = 2 * rad.res.sum_I[i]
        /\ rad.res2.tth_centers = rad.res.tth_centers
        /\ Len(rad.res.tth_centers) = rad.nbins

\* Two pixels in different bins, doubled.
C9_Witness ==
    /\ pc = "doubled"
    /\ rad.nbins = 2
    /\ rad.res.sum_I = <<1, 3>>
    /\ rad.res2.sum_I = <<2, 6>>

----------------------------------------------------------------------------
(* integrate.py: the batch integrator *)

\* Paths and patterns are sequences of character codes.
Slash == <<47>>        \* "/"
Underscore == <<95>>   \* "_"
TifExt == <<46, 116, 105, 102>>            \* ".tif"
TiffExt == <<46, 116, 105, 102, 102>>      \* ".tiff"
TxtExt == <<46, 116, 120, 116>>            \* ".txt"

EndsWith(s, suffix) ==
    /\ Len(suffix) <= Len(s)
    /\ SubSeq(s, Len(s) - Len(suffix) + 1, Len(s)) = suffix

\* The position of the last occurrence of character c in s, or 0.
LastIndexOf(s, c) ==
    LET at == {j \in DOMAIN s : s[j] = c}
    IN  IF at = {} THEN 0 ELSE CHOOSE j \in at : \A m \in at : m <= j

\* os.path.dirname and os.path.basename
Dirname(path) == SubSeq(path, 1, LastIndexOf(path, 47) - 1)
Basename(path) == SubSeq(path, LastIndexOf(path, 47) + 1, Len(path))

\* os.path.splitext(name)[0] for a name without directory part: a leading
\* dot starts no extension.
SplitextRoot(name) ==
    LET d == LastIndexOf(name, 46)
    IN  IF d <= 1 THEN name ELSE SubSeq(name, 1, d - 1)

RECURSIVE RStrip(_, _)
\* s.rstrip(c)
RStrip(s, c) ==
    IF s # <<>> /\ s[Len(s)] = c THEN RStrip(SubSeq(s, 1, Len(s) - 1), c) ELSE s

\* os.path.abspath of a relative path without "." or ".." parts and without
\* a trailing slash, in the working directory cwd.
Abspath(cwd, path) == IF path # <<>> /\ path[1] = 47 THEN path ELSE cwd \o Slash \o path

\* glob: the patterns used are "*" followed by a literal suffix; a pattern
\* is kept as that suffix.  Names starting with a dot are not matched by "*".
GlobMatches(suffix, name) == EndsWith(name, suffix) /\ name[1] # 46

RECURSIVE InsertPath(_, _)
InsertPath(sorted, path) ==
    IF sorted = <<>> THEN <<path>>
    ELSE IF ~LexLess(path, Head(sorted))
    THEN <<Head(sorted)>> \o InsertPath(Tail(sorted), path)
    ELSE <<path>> \o sorted

RECURSIVE InsertAll(_, _)
\* sorted(files) built by inserting the paths of set S into sorted.
InsertAll(sorted, S) ==
    IF S = {} THEN sorted
    ELSE LET x == CHOOSE y \in S : TRUE
         IN  InsertAll(InsertPath(sorted, x), S \ {x})

RECURSIVE collect_tiff_files(_, _)
\* Lines 57-66: every pattern's matches are appended, the whole is sorted; a
\* file matched by two patterns is listed twice.  names are the files of the
\* folder, patterns the stripped parts of the pattern string.
collect_tiff_files(names, patterns) ==
    IF patterns = <<>> THEN <<>>
    ELSE InsertAll(collect_tiff_files(names, SubSeq(patterns, 1, Len(patterns) - 1)),
                   {n \in names : GlobMatches(patterns[Len(patterns)], n)})

\* The angle map of a detector of the given shape: pixel k (row-major, from
\* 1) scatters at k - 1 degrees.
AngleMap(shape) == [k \in 1..Prod(shape) |-> Fin(k - 1)]

\* iio.imread of a stored image: every pixel of the test images is 1.
ImageData(shape) == [k \in 1..Prod(shape) |-> 1]

\* Lines 111-114 and 117: the normalised prefix and its parent directory.
NormalisedPrefix(cwd, output_prefix) ==
    RStrip(IF Dirname(output_prefix) # <<>> THEN Abspath(cwd, output_prefix)
           ELSE output_prefix, 95)

\* Line 135: f"{prefix}_{base}.txt"
OutName(prefix, tiff_path) ==
    prefix \o Underscore \o SplitextRoot(Basename(tiff_path)) \o TxtExt

----------------------------------------------------------------------------
(* SpecInteg: integrate_tiff_folder *)

Cwd == <<47, 119>>                                  \* "/w"
FileNames ==
    {<<97>> \o TifExt, <<97>> \o TiffExt, <<98>> \o TiffExt, <<99>> \o TxtExt}
ImageShapes == {<<1, 2>>, <<2, 1>>, <<1, 3>>}
MapShapes == {<<1, 2>>, <<2, 1>>}
PatternSuffixes == {TifExt, TiffExt, <<102>>}     \* "*.tif", "*.tiff", "*f"
Prefixes == {<<111, 47, 114, 95>>, <<114>>}       \* "o/r_", "r"

\* A folder: some of the file names, each an image of some shape.
Folders == UNION {[S -> ImageShapes] : S \in SUBSET FileNames}

PatternLists == {p \in SeqsUpTo(PatternSuffixes, MaxPats) : p # <<>>}

InitInteg ==
    /\ pc = "start"
    /\ itg \in [used : {TRUE}, folder : Folders, patterns : PatternLists,
                map_shape : MapShapes, output_prefix : Prefixes,
                tth_min : {0}, tth_max : {2}, nbins : {2},
                tiff_files : {<<>>}, loads : {0}, maps : {0}, tth_map : {<<>>},
                first_read : {<<>>}, prefix : {<<>>}, dirs_made : {{}},
                i : {0}, tables : {<<>>}, writes : {<<>>}]
    /\ rad = RadIdle
    /\ DecoderIdle
    /\ ConverterIdle

IntegUnchanged ==
    /\ UNCHANGED <<frame_group, payload, ret, img, decompressCalls, rad>>
    /\ UNCHANGED <<h5, group_name, nframes, keys, idx, out_files, out_dir_made,
                   processed, located>>

\* Mutant: the geometry is loaded before the files are looked for.
CollectFilesAfterLoad ==
    /\ pc = "start"
    /\ LET files == collect_tiff_files(DOMAIN itg.folder, itg.patterns)
       IN  /\ itg' = [itg EXCEPT !.tiff_files = files, !.loads = 1]
           /\ IF files = <<>>
              THEN pc' = "failed" /\ error' = "NoMatchingFilesError"
              ELSE pc' = "load" /\ error' = error
    /\ IntegUnchanged

\* Lines 93-97.
CollectFiles ==
    /\ pc = "start"
    /\ LET files == collect_tiff_files(DOMAIN itg.folder, itg.patterns)
       IN  /\ itg' = [itg EXCEPT !.tiff_files = files]
           /\ IF files = <<>>
              THEN pc' = "failed" /\ error' = "NoMatchingFilesError"
              ELSE pc' = "load" /\ error' = error
    /\ IntegUnchanged

\* Lines 99-100.
LoadGeometry ==
    /\ pc = "load"
    /\ itg' = [itg EXCEPT !.loads = @ + 1, !.maps = @ + 1,
                          !.tth_map = AngleMap(itg.map_shape)]
    /\ pc' = "check"
    /\ error' = error
    /\ IntegUnchanged

\* Lines 102-106.
CheckFirstImage ==
    /\ pc = "check"
    /\ LET test_shape == itg.folder[itg.tiff_files[1]]
       IN  /\ itg' = [itg EXCEPT !.first_read = itg.tiff_files[1]]
           /\ IF test_shape # itg.map_shape
              THEN pc' = "failed" /\ error' = "GeometryShapeMismatchError"
              ELSE pc' = "prepare" /\ error' = error
    /\ IntegUnchanged

\* Lines 108-119.
PrepareOutput ==
    /\ pc = "prepare"
    /\ LET prefix == NormalisedPrefix(Cwd, itg.output_prefix)
           parent_dir == Dirname(prefix)
       IN  itg' = [itg EXCEPT !.prefix = prefix,
                              !.dirs_made = IF parent_dir # <<>> THEN @ \cup {parent_dir}
                                            ELSE @]
    /\ pc' = "loop"
    /\ error' = error
    /\ IntegUnchanged

\* Lines 121-140: one iteration of the loop.
IntegrateFile ==
    /\ pc = "loop"
    /\ itg.i < Len(itg.tiff_files)
    /\ LET tiff_path == itg.tiff_files[itg.i + 1]
           res == radial_integrate(ImageData(itg.folder[tiff_path]), itg.tth_map,
                                   itg.tth_min, itg.tth_max, itg.nbins)
       IN  IF res.ok
           THEN /\ itg' = [itg EXCEPT
                             !.tables = WriteFile(@, OutName(itg.prefix, tiff_path),
                                                  <<res.tth_centers, res.sum_I>>),
                             !.writes = Append(@, tiff_path),
                             !.i = @ + 1]
                /\ UNCHANGED <<pc, error>>
           ELSE /\ pc' = "failed"
                /\ error' = res.error
                /\ itg' = itg
    /\ IntegUnchanged

\* Line 142.
FinishIntegrate ==
    /\ pc = "loop"
    /\ itg.i = Len(itg.tiff_files)
    /\ pc' = "done"
    /\ UNCHANGED <<error, itg>>
    /\ IntegUnchanged

NextInteg ==
    \/ CollectFiles \/ LoadGeometry \/ CheckFirstImage \/ PrepareOutput
    \/ IntegrateFile \/ FinishIntegrate

SpecInteg == InitInteg /\ [][NextInteg]_vars

----------------------------------------------------------------------------
(* Properties of the batch integrator *)

Matching ==
    {n \in DOMAIN itg.folder : \E j \in DOMAIN itg.patterns : EndsWith(n, itg.patterns[j])}

\* The lexicographically smallest matching file.
FirstMatching == CHOOSE n \in Matching : \A m \in Matching : n = m \/ LexLess(n, m)

NoOutputYet == itg.dirs_made = {} /\ itg.tables = <<>> /\ itg.writes = <<>>

====
